---- MODULE Spec2Model ----
(***************************************************************************)
(* A model of simple-chromium-ai: the initialize / createSession /         *)
(* withSession / checkTokenUsage / prompt operations of src/src/index.ts   *)
(* (the *Safe functions and their throwing wrappers) and of                *)
(* src/src/safe.ts (the Safe namespace and the wrappers that delegate to   *)
(* it), run against a host LanguageModel whose replies are                 *)
(* nondeterministic.                                                       *)
(*                                                                         *)
(* A call is a record in calls[c]; it moves from one await point to the    *)
(* next when the host (or the caller's callback) settles the promise it    *)
(* awaits.  neverthrow's ResultAsync is modelled by what it does: a        *)
(* ResultAsync settles to ok or err, or its promise rejects; map and       *)
(* mapErr run only when the promise fulfils.                               *)
(***************************************************************************)
EXTENDS Integers, Sequences, FiniteSets, TLC

----------------------------------------------------------------------------
(* Bounds of the model *)

\* instances the caller may hold at once (caps the instance id counter)
MaxInstances == 1
\* initialize calls begun in the specification of repeated initialize calls
MaxInits == 2
\* longest initialPrompts array a caller passes in the merge specification
MaxPrompts == 3
\* largest token count, quota or usage the host reports
MaxTokens == 2

----------------------------------------------------------------------------
(* Values *)

\* the first file of index.ts ("index": initializeSafe ... promptSafe) and
\* safe.ts ("safe": Safe.initialize ... Safe.prompt)
Apis == {"index", "safe"}
\* the result-returning form, and the throwing form built on it
Convs == {"result", "throwing"}

Availabilities == {"unavailable", "downloadable", "downloading", "available"}

\* systemPrompt?: string -- undefined, the empty string, a text
NoPrompt == "<undefined>"
SystemPrompts == {NoPrompt, "A"}
AllSystemPrompts == {NoPrompt, "", "A"}

\* JavaScript truthiness of an optional string
Truthy(s) == s # NoPrompt /\ s # ""

Message(r, t) == [role |-> r, content |-> t]
Messages == {Message("system", "B"), Message("user", "hello"), Message("user", "bye")}

\* LanguageModelCreateOptions, as far as the library reads it
\* (other: the fields the library does not read -- temperature, topK, signal,
\* monitor -- as one value)
NoOther == "none"
Others == {NoOther, "temperature=0.5,topK=3"}
Options(has, ps) == [hasInitialPrompts |-> has, initialPrompts |-> ps, other |-> NoOther]
\* { ...options, initialPrompts: ps }
WithPrompts(options, ps) == [options EXCEPT !.hasInitialPrompts = TRUE, !.initialPrompts = ps]
NoOptions == Options(FALSE, <<>>)
SeqsUpTo(S, n) == UNION {[1..k -> S] : k \in 0..n}
\* the options of the lifecycle specification: none, or one user message
SmallOptions == {NoOptions, Options(TRUE, <<Message("user", "hello")>>)}
\* the options of the merge specification: every array up to MaxPrompts
AllOptions ==
  {[o EXCEPT !.other = x] :
     o \in {NoOptions} \cup {Options(TRUE, ps) : ps \in SeqsUpTo(Messages, MaxPrompts)},
     x \in Others}

\* what a host call throws: an Error with a message, or a value that is no Error
Thrown(isErr, m) == [isError |-> isErr, message |-> m, cause |-> ""]
HostFaults == {Thrown(TRUE, "NotAllowedError"), Thrown(FALSE, "quota")}
AbortError == Thrown(TRUE, "AbortError")
NoError == Thrown(FALSE, "")

\* new Error("Chromium AI API is not available. Please ensure ...")
UnavailableErrorIndex == Thrown(TRUE, "Chromium AI API is not available. Please ensure you're using Chrome 138+")
\* new Error("AI model download failed. ...")
DownloadError == Thrown(TRUE, "AI model download failed. Please check your internet connection and try again.")
\* new Error("Chromium AI API is not available. To use Chrome AI: ...")
UnavailableErrorSafe == Thrown(TRUE, "Chromium AI API is not available. To use Chrome AI: 1. ... 5.")

\* error instanceof Error ? error : new Error(String(error))
ToError(e) == IF e.isError THEN e ELSE [e EXCEPT !.isError = TRUE]

\* a faulty CreateSessionError: the cause is never looked at
CreateSessionErrorNoCause(e) ==
  [isError |-> TRUE, message |-> "Failed to create AI session", cause |-> "Unknown error"]

\* new Error(`Failed to create AI session: ${error instanceof Error ? error.message : "Unknown error"}. ...`)
CreateSessionError(e) ==
  [isError |-> TRUE,
   message |-> "Failed to create AI session",
   cause |-> IF e.isError THEN e.message ELSE "Unknown error"]

----------------------------------------------------------------------------
(* Outcomes *)

NoOutcome == [kind |-> "none", value |-> "", error |-> NoError]
\* a ResultAsync that settled to ok(v) / err(e)
Ok(v) == [kind |-> "ok", value |-> v, error |-> NoError]
Err(e) == [kind |-> "err", value |-> "", error |-> e]
\* a ResultAsync whose promise rejected with e
Rejected(e) == [kind |-> "rejected", value |-> "", error |-> e]

Returned(v) == [kind |-> "returned", value |-> v, error |-> NoError]
Threw(e) == [kind |-> "thrown", value |-> "", error |-> e]

\* result.match((ok) => ok, (err) => { throw err })
okOrThrow(result) ==
  IF result.kind = "ok" THEN Returned(result.value) ELSE Threw(result.error)

\* what the caller of the call gets, in its calling convention: the ResultAsync
\* itself, or (throwing form) `await` of it, which rethrows a rejection, and
\* then okOrThrow
Deliver(conv, result) ==
  IF conv = "throwing"
  THEN IF result.kind = "rejected" THEN Threw(result.error) ELSE okOrThrow(result)
  ELSE result

----------------------------------------------------------------------------
(* State *)

VARIABLES
  env,            \* the globals of the page: is LanguageModel defined, is AbortSignal.any
  availability,   \* what LanguageModel.availability() resolves to now
  instances,      \* the ChromiumAIInstance values the caller holds
  nextId,         \* crypto.randomUUID(): the next fresh id
  calls,          \* the calls into the library, by call slot
  leakedSessions, \* the operations whose returned calls left a session of the library's live
  danglingTimers  \* the operations whose returned calls left a timer pending

vars == <<env, availability, instances, nextId, calls, leakedSessions, danglingTimers>>

Calls == {1, 2}

TokenInfo(p, m, s, a, w) ==
  [promptTokens |-> p, maxTokens |-> m, tokensSoFar |-> s, tokensAvailable |-> a, willFit |-> w]
NoInfo == TokenInfo(0, 0, 0, 0, FALSE)

IdleCall ==
  [op |-> "none", api |-> "index", conv |-> "result", pc |-> "idle",
   systemPrompt |-> NoPrompt, instanceId |-> 0,
   options |-> NoOptions, callerOptions |-> NoOptions, merged |-> NoOptions,
   timeout |-> 0, hasSignal |-> FALSE, promptOther |-> NoOther,
   callerPromptOptions |-> [hasSignal |-> FALSE, other |-> NoOther], cbKind |-> "none", cbFault |-> NoError,
   probes |-> 0, creates |-> 0, readings |-> <<>>, callbackCalls |-> 0,
   session |-> "none", destroyCalls |-> 0, promptCalls |-> 0, measureCalls |-> 0,
   timer |-> "none", lateFire |-> FALSE,
   hostSignal |-> "unset", hostOther |-> NoOther, userAborted |-> FALSE, timeoutAborted |-> FALSE,
   reply |-> "none", createFault |-> NoError, info |-> NoInfo,
   result |-> NoOutcome, outcome |-> NoOutcome]

Init ==
  /\ env \in [hasLanguageModel : BOOLEAN, hasSignalAny : BOOLEAN]
  /\ availability \in Availabilities
  /\ instances = {}
  /\ nextId = 1
  /\ calls = [c \in Calls |-> IdleCall]
  /\ leakedSessions = {}
  /\ danglingTimers = {}

\* the call has delivered its outcome to its caller
Done(c) == calls[c].pc = "done"

\* end the call with ResultAsync outcome r: r is what the result-returning
\* function gives, and the throwing form awaits it and applies okOrThrow
Finish(call, r) ==
  [call EXCEPT !.pc = "done", !.result = r, !.outcome = Deliver(call.conv, r)]

----------------------------------------------------------------------------
(* initialize *)

UnavailableError(api) == IF api = "index" THEN UnavailableErrorIndex ELSE UnavailableErrorSafe

\* the call with the reading LanguageModel.availability() resolved to noted
Reading(call) == [call EXCEPT !.readings = Append(@, availability)]

\* a faulty InitializeOk: one id, made once, is given to every Instance
InitializeOkSameId(c) ==
  /\ instances' = instances \cup {[systemPrompt |-> calls[c].systemPrompt, instanceId |-> 1]}
  /\ nextId' = nextId + 1
  /\ calls' = [calls EXCEPT ![c] = Finish([Reading(@) EXCEPT !.instanceId = 1], Ok("instance"))]

\* a faulty InitializeOk: the Instance is built without the systemPrompt
InitializeOkNoPrompt(c) ==
  /\ instances' = instances \cup {[systemPrompt |-> NoPrompt, instanceId |-> nextId]}
  /\ nextId' = nextId + 1
  /\ calls' = [calls EXCEPT ![c] = Finish([Reading(@) EXCEPT !.instanceId = nextId], Ok("instance"))]

\* ok({ systemPrompt, instanceId: crypto.randomUUID() })
InitializeOk(c) ==
  /\ instances' = instances \cup {[systemPrompt |-> calls[c].systemPrompt, instanceId |-> nextId]}
  /\ nextId' = nextId + 1
  /\ calls' = [calls EXCEPT ![c] = Finish([Reading(@) EXCEPT !.instanceId = nextId], Ok("instance"))]

InitializeErr(c, e) ==
  /\ calls' = [calls EXCEPT ![c] = Finish(Reading(@), Err(e))]
  /\ UNCHANGED <<instances, nextId>>

\* a faulty InitializeStart: no typeof LanguageModel check before the probe
InitializeStartUnchecked(c) ==
  \E api \in Apis, conv \in Convs, sp \in SystemPrompts :
    /\ calls[c].pc = "idle"
    /\ nextId <= MaxInstances
    /\ calls' = [calls EXCEPT ![c] =
         [IdleCall EXCEPT !.op = "initialize", !.api = api, !.conv = conv,
                          !.systemPrompt = sp, !.pc = "probe1", !.probes = 1]]
    /\ UNCHANGED <<env, availability, instances, nextId, leakedSessions, danglingTimers>>

\* the caller calls initializeSafe / initialize (index.ts) or Safe.initialize /
\* initialize (safe.ts, index.ts second file); runs to the first await
InitializeBegin(c) ==
  \E api \in Apis, conv \in Convs, sp \in SystemPrompts :
    /\ calls[c].pc = "idle"
    /\ LET call == [IdleCall EXCEPT !.op = "initialize", !.api = api, !.conv = conv,
                                    !.systemPrompt = sp]
       IN IF ~env.hasLanguageModel
          THEN calls' = [calls EXCEPT ![c] = Finish(call, Err(UnavailableError(api)))]
          ELSE calls' = [calls EXCEPT ![c] = [call EXCEPT !.pc = "probe1", !.probes = 1]]
    /\ UNCHANGED <<env, availability, instances, nextId, leakedSessions, danglingTimers>>

\* InitializeBegin, as long as the caller holds fewer than MaxInstances Instances
InitializeStart(c) == nextId <= MaxInstances /\ InitializeBegin(c)

\* a faulty SafeAfterProbe: only 'unavailable' is refused
SafeAfterProbeLenient(c, a) ==
  IF a # "unavailable" THEN InitializeOk(c) ELSE InitializeErr(c, UnavailableErrorSafe)

\* safe.ts: match(availability).with("unavailable", "downloadable", "downloading", err)
\*                              .with("available", ok)
SafeAfterProbe(c, a) ==
  IF a = "available" THEN InitializeOk(c) ELSE InitializeErr(c, UnavailableErrorSafe)

\* a faulty IndexAfterProbe1: 'unavailable' is sent to the download step too
IndexAfterProbe1DownloadsAlways(c, a) ==
  IF a = "available"
  THEN /\ calls' = [calls EXCEPT ![c] = [Reading(@) EXCEPT !.pc = "probe2", !.probes = @ + 1]]
       /\ UNCHANGED <<instances, nextId>>
  ELSE /\ calls' = [calls EXCEPT ![c] = [Reading(@) EXCEPT !.pc = "download", !.creates = @ + 1]]
       /\ UNCHANGED <<instances, nextId>>

\* index.ts: what initializeSafe does with the first reading
IndexAfterProbe1(c, a) ==
  CASE a = "unavailable" -> InitializeErr(c, UnavailableErrorIndex)
    [] a \in {"downloadable", "downloading"} ->
         /\ calls' = [calls EXCEPT ![c] = [Reading(@) EXCEPT !.pc = "download", !.creates = @ + 1]]
         /\ UNCHANGED <<instances, nextId>>
    [] OTHER ->
         /\ calls' = [calls EXCEPT ![c] = [Reading(@) EXCEPT !.pc = "probe2", !.probes = @ + 1]]
         /\ UNCHANGED <<instances, nextId>>

\* a faulty IndexAfterProbe2: the download step is tried once more
IndexAfterProbe2Retries(c, a) ==
  IF a = "available" THEN InitializeOk(c)
  ELSE IF calls[c].creates < 2
  THEN /\ calls' = [calls EXCEPT ![c] = [Reading(@) EXCEPT !.pc = "download", !.creates = @ + 1]]
       /\ UNCHANGED <<instances, nextId>>
  ELSE InitializeErr(c, DownloadError)

\* a faulty IndexAfterProbe2: a download still running counts as ready
IndexAfterProbe2Lenient(c, a) ==
  IF a \in {"available", "downloading"} THEN InitializeOk(c) ELSE InitializeErr(c, DownloadError)

\* index.ts: finalStatus === "available" ? ok(instance) : err(downloadError)
IndexAfterProbe2(c, a) ==
  IF a = "available" THEN InitializeOk(c) ELSE InitializeErr(c, DownloadError)

\* LanguageModel.availability() resolves with the host's current reading
HostAvailabilityResolve(c) ==
  /\ calls[c].pc \in {"probe1", "probe2"}
  /\ IF calls[c].api = "safe" THEN SafeAfterProbe(c, availability)
     ELSE IF calls[c].pc = "probe1" THEN IndexAfterProbe1(c, availability)
     ELSE IndexAfterProbe2(c, availability)
  /\ UNCHANGED <<env, availability, leakedSessions, danglingTimers>>

\* LanguageModel.availability() rejects: the await is outside any try
HostAvailabilityReject(c) ==
  \E e \in HostFaults :
    /\ calls[c].pc \in {"probe1", "probe2"}
    /\ calls' = [calls EXCEPT ![c] = Finish(@, Rejected(e))]
    /\ UNCHANGED <<env, availability, instances, nextId, leakedSessions, danglingTimers>>

\* a faulty HostDownloadResolve: the temporary session is not destroyed
HostDownloadResolveKeepsSession(c) ==
  /\ calls[c].pc = "download"
  /\ calls' = [calls EXCEPT ![c] = [@ EXCEPT !.session = "created", !.pc = "probe2",
                                             !.probes = @ + 1]]
  /\ UNCHANGED <<env, availability, instances, nextId, leakedSessions, danglingTimers>>

\* the temporary session of the download step is created; tempSession.destroy()
\* runs at once, inside the try (destroyOk = FALSE: destroy throws)
HostDownloadResolve(c) ==
  \E destroyOk \in BOOLEAN :
    /\ calls[c].pc = "download"
    /\ LET call == [calls[c] EXCEPT !.session = "created", !.destroyCalls = @ + 1]
       IN calls' = [calls EXCEPT ![c] =
            IF destroyOk THEN [call EXCEPT !.pc = "probe2", !.probes = @ + 1]
            ELSE Finish(call, Err(DownloadError))]
    /\ UNCHANGED <<env, availability, instances, nextId, leakedSessions, danglingTimers>>

\* LanguageModel.create of the download step throws: catch { return err(downloadError) }
HostDownloadReject(c) ==
  /\ calls[c].pc = "download"
  /\ calls' = [calls EXCEPT ![c] = Finish(@, Err(DownloadError))]
  /\ UNCHANGED <<env, availability, instances, nextId, leakedSessions, danglingTimers>>

\* the browser's reading changes (a download ends, the model is removed, ...)
HostAvailabilityChange ==
  \E a \in Availabilities \ {availability} :
    /\ env.hasLanguageModel
    /\ availability' = a
    /\ UNCHANGED <<env, instances, nextId, calls, leakedSessions, danglingTimers>>

----------------------------------------------------------------------------
(* createSession *)

\* a faulty MergePrepend: the caller's messages are appended without slice(1)
MergePrependNoSlice(systemPrompt, options) ==
  IF Truthy(systemPrompt)
  THEN WithPrompts(options, <<Message("system", systemPrompt)>>
                     \o (IF options.hasInitialPrompts THEN options.initialPrompts ELSE <<>>))
  ELSE options

\* a faulty MergePrepend: the merged options are built anew, not from ...options
MergePrependFresh(systemPrompt, options) ==
  IF Truthy(systemPrompt)
  THEN LET systemMessage == Message("system", systemPrompt)
           nonSystemMessages ==
             IF options.hasInitialPrompts /\ Len(options.initialPrompts) > 0
             THEN Tail(options.initialPrompts) ELSE <<>>
       IN Options(TRUE, <<systemMessage>> \o nonSystemMessages)
  ELSE Options(options.hasInitialPrompts, options.initialPrompts)

\* index.ts createSessionSafe: the options handed to LanguageModel.create
MergePrepend(systemPrompt, options) ==
  IF Truthy(systemPrompt)
  THEN LET systemMessage == Message("system", systemPrompt)
           \* options.initialPrompts.slice(1)
           nonSystemMessages ==
             IF options.hasInitialPrompts /\ Len(options.initialPrompts) > 0
             THEN Tail(options.initialPrompts) ELSE <<>>
       IN IF Len(nonSystemMessages) > 0
          THEN WithPrompts(options, <<systemMessage>> \o nonSystemMessages)
          ELSE WithPrompts(options, <<systemMessage>>)
  ELSE options

\* a faulty MergeOverride: the system message is kept in front of the caller's
MergeOverrideKeepsSystem(systemPrompt, options) ==
  IF Truthy(systemPrompt)
  THEN WithPrompts(options, <<Message("system", systemPrompt)>>
                     \o (IF options.hasInitialPrompts THEN options.initialPrompts ELSE <<>>))
  ELSE options

\* safe.ts createSession: the options handed to LanguageModel.create
MergeOverride(systemPrompt, options) ==
  IF options.hasInitialPrompts /\ Len(options.initialPrompts) > 0
  THEN options
  ELSE IF Truthy(systemPrompt)
       THEN WithPrompts(options, <<Message("system", systemPrompt)>>)
       ELSE options

mergedOptions(api, systemPrompt, options) ==
  IF api = "index" THEN MergePrepend(systemPrompt, options)
  ELSE MergeOverride(systemPrompt, options)

\* a call of one of the four operations that take an Instance, up to its
\* first await: LanguageModel.create(mergedOptions)
BeginCreate(c, call) ==
  /\ calls[c].pc = "idle"
  /\ calls' = [calls EXCEPT ![c] =
       [call EXCEPT !.pc = "create", !.creates = 1,
                    \* const mergedOptions = { ...options }: the caller's object is only read
                    !.callerOptions = call.options,
                    !.merged = mergedOptions(call.api, call.systemPrompt, call.options)]]
  /\ UNCHANGED <<env, availability, instances, nextId, leakedSessions, danglingTimers>>

OnInstance(op, api, conv, inst, o) ==
  [IdleCall EXCEPT !.op = op, !.api = api, !.conv = conv,
                   !.systemPrompt = inst.systemPrompt, !.instanceId = inst.instanceId,
                   !.options = o]

\* createSessionSafe / createSession (index.ts), Safe.createSession (safe.ts)
CreateSessionStart(c, Opts) ==
  \E api \in Apis, conv \in Convs, inst \in instances, o \in Opts :
    BeginCreate(c, OnInstance("createSession", api, conv, inst, o))

\* interface ChromiumAIInstance { readonly systemPrompt?: string; readonly
\* instanceId: string }: an object literal of that shape, written by the caller
\* (id 0: an id no initialize call gave out)
LiteralInstance(sp) == [systemPrompt |-> sp, instanceId |-> 0]

\* createSessionSafe / createSession / Safe.createSession called with an object
\* the caller built: the functions read instance.systemPrompt and check nothing
CreateSessionOnLiteral(c) ==
  \E api \in Apis, conv \in Convs, sp \in SystemPrompts :
    BeginCreate(c, OnInstance("createSession", api, conv, LiteralInstance(sp), NoOptions))

----------------------------------------------------------------------------
(* withSession, and the callbacks of checkTokenUsage and prompt *)

\* what a caller's callback throws or fails with
CallbackFaults == {Thrown(TRUE, "callback failed"), Thrown(FALSE, "boom")}
\* what session.destroy() does: returns (NoError) or throws
DestroyFaults == {NoError, Thrown(TRUE, "InvalidStateError")}

\* how the callback of a withSession call ends.  Result-returning form: its
\* ResultAsync settles ok or err, its promise rejects, or the callback throws
\* before returning one.  Throwing form: its promise fulfils or rejects, or the
\* callback throws before returning one.
CallbackKinds(conv) ==
  IF conv = "result" THEN {"ok", "err", "reject", "throw"} ELSE {"ok", "reject", "throw"}

WithSessionStart(c) ==
  \E api \in Apis, conv \in Convs, inst \in instances, o \in SmallOptions,
     f \in CallbackFaults :
    \E k \in CallbackKinds(conv) :
      /\ k = "ok" => f = Thrown(TRUE, "callback failed")
      /\ (k = "err" /\ conv = "result") => f.isError
      /\ BeginCreate(c, [OnInstance("withSession", api, conv, inst, o)
                           EXCEPT !.cbKind = k, !.cbFault = f])

\* a faulty Cleanup: the mapErr branch is missing, a failure skips destroy()
CleanupOnSuccessOnly(call, r, d) ==
  IF r.kind # "ok"
  THEN Finish(call, r)
  ELSE LET destroyed == [call EXCEPT !.destroyCalls = @ + 1]
       IN IF d # NoError THEN Finish(destroyed, Rejected(d)) ELSE Finish(destroyed, r)

\* callback(session).map(v => { session.destroy(); return v })
\*                  .mapErr(e => { session.destroy(); return e })
\* applied to the callback's ResultAsync r; d is what destroy() does
Cleanup(call, r, d) ==
  IF r.kind = "rejected"
  THEN Finish(call, r)
  ELSE LET destroyed == [call EXCEPT !.destroyCalls = @ + 1]
       IN IF d # NoError THEN Finish(destroyed, Rejected(d)) ELSE Finish(destroyed, r)

\* the ResultAsync the callback of a withSession call ends with: in the throwing
\* form it is ResultAsync.fromPromise(callback(session), e => e instanceof Error ? ...)
CallbackResult(call) ==
  CASE call.cbKind = "ok" -> Ok("v")
    [] call.cbKind = "err" -> Err(call.cbFault)
    [] OTHER -> IF call.conv = "throwing" THEN Err(ToError(call.cbFault))
                ELSE Rejected(call.cbFault)

\* the callback of a withSession call settles
CallbackSettle(c) ==
  \E d \in DestroyFaults :
    /\ calls[c].pc = "callback"
    /\ calls' = [calls EXCEPT ![c] = Cleanup(@, CallbackResult(@), d)]
    /\ UNCHANGED <<env, availability, instances, nextId, leakedSessions, danglingTimers>>

----------------------------------------------------------------------------
(* checkTokenUsage *)

\* a number the host reports, or undefined
HostNumber(def, v) == [defined |-> def, value |-> v]
HostNumbers == {HostNumber(FALSE, 0)} \cup {HostNumber(TRUE, v) : v \in 0..MaxTokens}
\* x || 0
OrZero(x) == IF x.defined /\ x.value # 0 THEN x.value ELSE 0

\* a faulty tokenUsageInfo: willFit needs room to spare
tokenUsageInfoStrict(promptTokens, inputQuota, inputUsage) ==
  LET maxTokens == OrZero(inputQuota)
      tokensSoFar == OrZero(inputUsage)
      tokensAvailable == maxTokens - tokensSoFar
  IN TokenInfo(promptTokens, maxTokens, tokensSoFar, tokensAvailable,
               promptTokens < tokensAvailable)

\* the TokenUsageInfo built from the measured cost and the session's counters
tokenUsageInfo(promptTokens, inputQuota, inputUsage) ==
  LET maxTokens == OrZero(inputQuota)
      tokensSoFar == OrZero(inputUsage)
      tokensAvailable == maxTokens - tokensSoFar
  IN TokenInfo(promptTokens, maxTokens, tokensSoFar, tokensAvailable,
               promptTokens <= tokensAvailable)

CheckTokenUsageStart(c) ==
  \E api \in Apis, conv \in Convs, inst \in instances, o \in SmallOptions :
    BeginCreate(c, OnInstance("checkTokenUsage", api, conv, inst, o))

\* session.measureInputUsage(prompt) resolves; the callback's promise fulfils
\* (ResultAsync.fromSafePromise), then withSession's cleanup runs
HostMeasureResolve(c) ==
  \E n \in 0..MaxTokens, q \in HostNumbers, u \in HostNumbers, d \in DestroyFaults :
    /\ calls[c].pc = "measuring"
    /\ calls' = [calls EXCEPT ![c] =
         Cleanup([@ EXCEPT !.info = tokenUsageInfo(n, q, u), !.reply = "ok"], Ok("info"), d)]
    /\ UNCHANGED <<env, availability, instances, nextId, leakedSessions, danglingTimers>>

\* the ResultAsync of checkTokenUsage's callback when measureInputUsage rejects
\* with e: ResultAsync.fromSafePromise(p) is p.then(v => ok(v)), with no catch
MeasureFailure(e) == Rejected(e)

\* session.measureInputUsage(prompt) rejects
HostMeasureReject(c) ==
  \E e \in HostFaults, d \in DestroyFaults :
    /\ calls[c].pc = "measuring"
    /\ calls' = [calls EXCEPT ![c] = Cleanup([@ EXCEPT !.reply = "fail"], MeasureFailure(e), d)]
    /\ UNCHANGED <<env, availability, instances, nextId, leakedSessions, danglingTimers>>

----------------------------------------------------------------------------
(* prompt *)

\* timeout?: number -- absent (or 0, which the code treats alike), or 10 ms
Timeouts == {0, 10}

\* a faulty finalSignal: the single-signal branch is missing
finalSignalOnlyAny(timeout, hasSignal, hasSignalAny) ==
  IF hasSignal /\ timeout # 0 /\ hasSignalAny THEN "any"
  ELSE IF hasSignal THEN "user" ELSE "none"

\* the signal of finalPromptOptions: "none", the caller's ("user"), the timeout
\* controller's ("timeout"), or AbortSignal.any of both ("any")
finalSignal(timeout, hasSignal, hasSignalAny) ==
  LET signals == (IF hasSignal THEN <<"user">> ELSE <<>>)
                 \o (IF timeout # 0 THEN <<"timeout">> ELSE <<>>)
  IN IF Len(signals) > 1 /\ hasSignalAny THEN "any"
     ELSE IF Len(signals) = 1 THEN signals[1]
     ELSE IF hasSignal THEN "user" ELSE "none"

\* a faulty newTimer: the timer is set whether or not a timeout is given
newTimerAlways(timeout) == "pending"

\* timeoutId after the signal block: setTimeout(...) when timeout is given
newTimer(timeout) == IF timeout # 0 THEN "pending" ELSE "none"

\* a faulty clearTimeout: the finally block is missing
clearTimeoutMissing(timer) == timer

\* finally { if (timeoutId) clearTimeout(timeoutId) }
clearTimeout(timer) == IF timer = "pending" THEN "cleared" ELSE timer

\* is the signal the host was given aborted
SignalAborted(call) ==
  CASE call.hostSignal = "user" -> call.userAborted
    [] call.hostSignal = "timeout" -> call.timeoutAborted
    [] call.hostSignal = "any" -> call.userAborted \/ call.timeoutAborted
    [] OTHER -> FALSE

\* a faulty finalOther: the options with a substituted signal are { signal } alone
finalOtherDropped(timeout, hasSignal, promptOther) ==
  IF timeout # 0 \/ hasSignal THEN NoOther ELSE promptOther

\* the fields other than signal (responseConstraint, ...) of finalPromptOptions:
\* promptOptions || {} itself, or { ...finalPromptOptions, signal }
finalOther(timeout, hasSignal, promptOther) == promptOther

\* promptSafe / prompt / Safe.prompt with promptOptions whose other fields are
\* drawn from Os
PromptStartOn(c, Os) ==
  \E api \in Apis, conv \in Convs, inst \in instances, o \in SmallOptions,
     t \in Timeouts, sig \in BOOLEAN, x \in Os :
    BeginCreate(c, [OnInstance("prompt", api, conv, inst, o)
                     EXCEPT !.timeout = t, !.hasSignal = sig, !.promptOther = x,
                            !.callerPromptOptions = [hasSignal |-> sig, other |-> x]])

PromptStart(c) == PromptStartOn(c, {NoOther})

\* promptSafe / prompt / Safe.prompt called with an object the caller built
PromptOnLiteral(c) ==
  \E api \in Apis, conv \in Convs, sp \in SystemPrompts :
    BeginCreate(c, OnInstance("prompt", api, conv, LiteralInstance(sp), NoOptions))

\* a faulty PromptSettle: a failed generation call is issued once more
PromptSettleRetries(call, reply, r, d) ==
  IF reply # "ok" /\ call.promptCalls < 2
  THEN [call EXCEPT !.promptCalls = @ + 1]
  ELSE Cleanup([call EXCEPT !.timer = clearTimeout(@), !.reply = reply], r, d)

\* the callback of prompt ends: the finally block, then
\* ResultAsync.fromPromise(..., e => e instanceof Error ? e : new Error(String(e)))
\* gives r, then withSession's cleanup
PromptSettle(call, reply, r, d) ==
  Cleanup([call EXCEPT !.timer = clearTimeout(@), !.reply = reply], r, d)

\* session.prompt resolves with the response
HostPromptResolve(c) ==
  \E d \in DestroyFaults :
    /\ calls[c].pc = "prompting"
    /\ calls' = [calls EXCEPT ![c] = PromptSettle(@, "ok", Ok("response"), d)]
    /\ UNCHANGED <<env, availability, instances, nextId, leakedSessions, danglingTimers>>

\* session.prompt rejects for a reason of the host's own
HostPromptReject(c) ==
  \E e \in HostFaults, d \in DestroyFaults :
    /\ calls[c].pc = "prompting"
    /\ calls' = [calls EXCEPT ![c] = PromptSettle(@, "fail", Err(ToError(e)), d)]
    /\ UNCHANGED <<env, availability, instances, nextId, leakedSessions, danglingTimers>>

\* session.prompt rejects with an AbortError because its signal is aborted
HostPromptAbort(c) ==
  \E d \in DestroyFaults :
    /\ calls[c].pc = "prompting"
    /\ SignalAborted(calls[c])
    /\ calls' = [calls EXCEPT ![c] = PromptSettle(@, "abort", Err(ToError(AbortError)), d)]
    /\ UNCHANGED <<env, availability, instances, nextId, leakedSessions, danglingTimers>>

\* a faulty TimerFire: the timeout aborts the caller's signal as well
TimerFireAbortsCaller(c) ==
  /\ calls[c].timer = "pending"
  /\ calls' = [calls EXCEPT ![c] = [@ EXCEPT !.timer = "fired", !.timeoutAborted = TRUE,
                                             !.userAborted = TRUE,
                                             !.lateFire = (@ \/ calls[c].pc = "done")]]
  /\ UNCHANGED <<env, availability, instances, nextId, leakedSessions, danglingTimers>>

\* the timer's callback runs: () => timeoutController.abort()
TimerFire(c) ==
  /\ calls[c].timer = "pending"
  /\ calls' = [calls EXCEPT ![c] = [@ EXCEPT !.timer = "fired", !.timeoutAborted = TRUE,
                                             !.lateFire = (@ \/ calls[c].pc = "done")]]
  /\ UNCHANGED <<env, availability, instances, nextId, leakedSessions, danglingTimers>>

\* the caller aborts the signal it passed in promptOptions
UserAbort(c) ==
  /\ calls[c].op = "prompt"
  /\ calls[c].hasSignal
  /\ ~calls[c].userAborted
  /\ calls' = [calls EXCEPT ![c] = [@ EXCEPT !.userAborted = TRUE]]
  /\ UNCHANGED <<env, availability, instances, nextId, leakedSessions, danglingTimers>>

----------------------------------------------------------------------------
(* the host's session constructor settles *)

\* andThen((session) => callback(session)...): what runs, up to the next await,
\* once LanguageModel.create has resolved
AfterCreate(call) ==
  LET made == [call EXCEPT !.session = "created"]
      \* callback(session) is called
      called == [made EXCEPT !.callbackCalls = @ + 1]
  IN CASE call.op = "createSession" -> Finish(made, Ok("session"))
       [] call.op = "withSession" ->
            IF call.cbKind = "throw" THEN Finish(called, Rejected(call.cbFault))
            ELSE [called EXCEPT !.pc = "callback"]
       [] call.op = "checkTokenUsage" ->
            [called EXCEPT !.pc = "measuring", !.measureCalls = @ + 1]
       [] OTHER ->
            [called EXCEPT !.pc = "prompting", !.promptCalls = @ + 1,
                         !.timer = newTimer(call.timeout),
                         !.hostSignal = finalSignal(call.timeout, call.hasSignal, env.hasSignalAny),
                         !.hostOther = finalOther(call.timeout, call.hasSignal, call.promptOther)]

\* LanguageModel.create(mergedOptions) resolves with a session
HostCreateResolve(c) ==
  /\ calls[c].pc = "create"
  /\ calls' = [calls EXCEPT ![c] = AfterCreate(@)]
  /\ UNCHANGED <<env, availability, instances, nextId, leakedSessions, danglingTimers>>

\* a faulty HostCreateReject: the callback is called although no session exists
HostCreateRejectRunsCallback(c) ==
  \E e \in HostFaults :
    /\ calls[c].pc = "create"
    /\ calls' = [calls EXCEPT ![c] =
         Finish([@ EXCEPT !.callbackCalls = @ + 1, !.createFault = e], Err(CreateSessionError(e)))]
    /\ UNCHANGED <<env, availability, instances, nextId, leakedSessions, danglingTimers>>

\* LanguageModel.create(mergedOptions) throws: catch (error) { return err(new Error(...)) }
HostCreateReject(c) ==
  \E e \in HostFaults :
    /\ calls[c].pc = "create"
    /\ calls' = [calls EXCEPT ![c] = Finish([@ EXCEPT !.createFault = e], Err(CreateSessionError(e)))]
    /\ UNCHANGED <<env, availability, instances, nextId, leakedSessions, danglingTimers>>

----------------------------------------------------------------------------
(* the caller takes the outcome; the slot is free for the next call *)

\* the session of the call is the library's own and was never destroyed
Leaked(call) ==
  call.session = "created" /\ call.op # "createSession" /\ call.destroyCalls = 0

Collect(c) ==
  /\ calls[c].pc = "done"
  /\ calls' = [calls EXCEPT ![c] = IdleCall]
  /\ leakedSessions' = leakedSessions \cup (IF Leaked(calls[c]) THEN {calls[c].op} ELSE {})
  /\ danglingTimers' = danglingTimers \cup (IF calls[c].timer = "pending" THEN {calls[c].op} ELSE {})
  /\ UNCHANGED <<env, availability, instances, nextId>>

----------------------------------------------------------------------------
(* Specifications *)

\* what call c can do next
Step(c) ==
  \/ InitializeStart(c)
  \/ HostAvailabilityResolve(c)
  \/ HostAvailabilityReject(c)
  \/ HostDownloadResolve(c)
  \/ HostDownloadReject(c)
  \/ CreateSessionStart(c, SmallOptions)
  \/ WithSessionStart(c)
  \/ CheckTokenUsageStart(c)
  \/ PromptStart(c)
  \/ HostCreateResolve(c)
  \/ HostCreateReject(c)
  \/ CallbackSettle(c)
  \/ HostMeasureResolve(c)
  \/ HostMeasureReject(c)
  \/ HostPromptResolve(c)
  \/ HostPromptReject(c)
  \/ HostPromptAbort(c)
  \/ TimerFire(c)
  \/ UserAbort(c)
  \/ Collect(c)

\* one call at a time
Next == Step(1) \/ HostAvailabilityChange

Spec == Init /\ [][Next]_vars

\* timers that are due fire, and the host settles a generation call whose
\* signal is aborted
FairSpec == Spec /\ WF_vars(TimerFire(1)) /\ WF_vars(HostPromptAbort(1))

\* every host call other than the generation call settles, and so does the
\* callback handed to withSession
HostSettles(c) ==
  \/ HostAvailabilityResolve(c)
  \/ HostAvailabilityReject(c)
  \/ HostDownloadResolve(c)
  \/ HostDownloadReject(c)
  \/ HostCreateResolve(c)
  \/ HostCreateReject(c)
  \/ CallbackSettle(c)
  \/ HostMeasureResolve(c)
  \/ HostMeasureReject(c)

\* the generation call of a prompt without a timeout settles of its own
UntimedGenerationSettles(c) ==
  /\ calls[c].timeout = 0
  /\ (HostPromptResolve(c) \/ HostPromptReject(c))

\* the host settles every call but a generation under a timeout, which it
\* settles only once its signal is aborted; timers that are due fire
TerminationSpec ==
  /\ Spec
  /\ WF_vars(HostSettles(1))
  /\ WF_vars(UntimedGenerationSettles(1))
  /\ WF_vars(TimerFire(1))
  /\ WF_vars(HostPromptAbort(1))

\* createSession alone, on an Instance of any system prompt, with every
\* initialPrompts array up to MaxPrompts
MergeInit ==
  /\ env \in [hasLanguageModel : {TRUE}, hasSignalAny : BOOLEAN]
  /\ availability = "available"
  /\ \E sp \in AllSystemPrompts : instances = {[systemPrompt |-> sp, instanceId |-> 1]}
  /\ nextId = 2
  /\ calls = [c \in Calls |-> IdleCall]
  /\ leakedSessions = {}
  /\ danglingTimers = {}

MergeNext ==
  \/ CreateSessionStart(1, AllOptions)
  \/ HostCreateResolve(1)
  \/ HostCreateReject(1)
  \/ Collect(1)

MergeSpec == MergeInit /\ [][MergeNext]_vars

\* the lifecycle with callers that also pass Instance objects of their own
GateNext ==
  \/ Next
  \/ CreateSessionOnLiteral(1)
  \/ PromptOnLiteral(1)

GateSpec == Init /\ [][GateNext]_vars

\* initialize alone, called again and again and by two callers at once
InitsInit ==
  /\ env = [hasLanguageModel |-> TRUE, hasSignalAny |-> TRUE]
  /\ availability \in Availabilities
  /\ instances = {}
  /\ nextId = 1
  /\ calls = [c \in Calls |-> IdleCall]
  /\ leakedSessions = {}
  /\ danglingTimers = {}

InitsStep(c) ==
  \/ nextId <= MaxInits /\ InitializeBegin(c)
  \/ HostAvailabilityResolve(c)
  \/ HostAvailabilityReject(c)
  \/ HostDownloadResolve(c)
  \/ HostDownloadReject(c)
  \/ Collect(c)

InitsNext == (\E c \in Calls : InitsStep(c)) \/ HostAvailabilityChange

InitsSpec == InitsInit /\ [][InitsNext]_vars

\* two callers at once on one shared Instance: withSessionSafe,
\* checkTokenUsageSafe and promptSafe of index.ts, without session options
SharedInstance == [systemPrompt |-> "A", instanceId |-> 1]

ShareInit ==
  /\ env = [hasLanguageModel |-> TRUE, hasSignalAny |-> TRUE]
  /\ availability = "available"
  /\ instances = {SharedInstance}
  /\ nextId = 2
  /\ calls = [c \in Calls |-> IdleCall]
  /\ leakedSessions = {}
  /\ danglingTimers = {}

\* the calls of the shared specification
ShareInputs ==
  \A c \in Calls :
    calls[c].api = "index" /\ calls[c].conv = "result" /\ calls[c].options = NoOptions

ShareStep(c) ==
  \/ WithSessionStart(c) /\ ShareInputs'
  \/ CheckTokenUsageStart(c) /\ ShareInputs'
  \/ PromptStart(c) /\ ShareInputs'
  \/ HostCreateResolve(c)
  \/ HostCreateReject(c)
  \/ CallbackSettle(c)
  \/ HostMeasureResolve(c)
  \/ HostMeasureReject(c)
  \/ HostPromptResolve(c)
  \/ HostPromptReject(c)
  \/ HostPromptAbort(c)
  \/ TimerFire(c)
  \/ UserAbort(c)

ShareNext == \E c \in Calls : ShareStep(c)

ShareSpec == ShareInit /\ [][ShareNext]_vars

\* prompt alone on one Instance, with promptOptions that carry other fields
PromptOptionsInit ==
  /\ env \in [hasLanguageModel : {TRUE}, hasSignalAny : BOOLEAN]
  /\ availability = "available"
  /\ instances = {SharedInstance}
  /\ nextId = 2
  /\ calls = [c \in Calls |-> IdleCall]
  /\ leakedSessions = {}
  /\ danglingTimers = {}

PromptOptionsNext ==
  \/ PromptStartOn(1, Others)
  \/ HostCreateResolve(1)
  \/ HostCreateReject(1)
  \/ HostPromptResolve(1)
  \/ HostPromptReject(1)
  \/ HostPromptAbort(1)
  \/ TimerFire(1)
  \/ UserAbort(1)
  \/ Collect(1)

PromptOptionsSpec == PromptOptionsInit /\ [][PromptOptionsNext]_vars

----------------------------------------------------------------------------
(* Claims *)

\* the library opened a session for the call, and the call has returned
Returned1(c, op) ==
  calls[c].op = op /\ Done(c) /\ calls[c].session = "created"

NonSystem(ps) == \A i \in 1..Len(ps) : ps[i].role # "system"

\* C1: when a withSession call (either form, either file) has delivered its
\* outcome, destroy() has been called exactly once on the session it created,
\* whether the callback succeeded, failed, or raised.
C1_WithSessionDestroysOnce ==
  \A c \in Calls : Returned1(c, "withSession") => calls[c].destroyCalls = 1

\* C2: when a prompt call has delivered its outcome, the session it opened has
\* been destroyed (once), whatever the host's reply was; no returned prompt call
\* leaves a session live, and each call creates its own session and issues its
\* generation call on it.
C2_PromptSessionDestroyed ==
  /\ \A c \in Calls :
       Returned1(c, "prompt") =>
         /\ calls[c].destroyCalls = 1
         /\ calls[c].creates = 1
         /\ calls[c].promptCalls = 1
  /\ "prompt" \notin leakedSessions

\* a cancelled prompt call has returned, its session destroyed
C2_Witness ==
  \E c \in Calls :
    /\ Returned1(c, "prompt")
    /\ calls[c].reply = "abort"
    /\ calls[c].destroyCalls = 1

\* C3: a prompt call that has returned has no pending timer, no timer callback
\* runs after the return, and no returned call has left a timer behind.
C3_TimerCleared ==
  /\ \A c \in Calls :
       /\ (calls[c].pc \in {"idle", "done"}) => calls[c].timer # "pending"
       /\ ~calls[c].lateFire
  /\ danglingTimers = {}

\* a prompt call with a timeout has returned after a host failure, its timer cleared
C3_Witness ==
  \E c \in Calls :
    /\ Returned1(c, "prompt")
    /\ calls[c].timeout # 0
    /\ calls[c].reply = "fail"
    /\ calls[c].timer = "cleared"

\* C4: when a checkTokenUsage call has delivered its outcome, the session it
\* opened has been destroyed, also when measureInputUsage failed.
C4_CheckTokenUsageDestroys ==
  \A c \in Calls : Returned1(c, "checkTokenUsage") => calls[c].destroyCalls = 1

\* C5: a result-returning call settles to ok or err; its ResultAsync never rejects.
C5_SafeNeverRejects ==
  \A c \in Calls :
    (Done(c) /\ calls[c].conv = "result") => calls[c].outcome.kind \in {"ok", "err"}

\* the host has been handed the options of a createSession call of the given file
CreateIssued(c, api) ==
  /\ calls[c].op = "createSession"
  /\ calls[c].api = api
  /\ calls[c].creates = 1

\* C6: index.ts createSessionSafe, Instance with a system prompt, caller's
\* initialPrompts m1..mn all non-system (n >= 1): the host receives
\* [system(instance.systemPrompt), m1, ..., mn].
C6_PrependKeepsAllNonSystem ==
  \A c \in Calls :
    (/\ CreateIssued(c, "index")
     /\ Truthy(calls[c].systemPrompt)
     /\ calls[c].options.hasInitialPrompts
     /\ Len(calls[c].options.initialPrompts) >= 1
     /\ NonSystem(calls[c].options.initialPrompts))
    => calls[c].merged.initialPrompts =
         <<Message("system", calls[c].systemPrompt)>> \o calls[c].options.initialPrompts

\* the caller's initialPrompts are a system message followed by non-system ones
LeadingSystem(ps) ==
  /\ Len(ps) >= 1
  /\ ps[1].role = "system"
  /\ NonSystem(Tail(ps))

\* C7: index.ts createSessionSafe, Instance with system prompt A, caller's
\* initialPrompts [system:B, r1, ..., rn]: the host receives [system:A, r1, ..., rn].
C7_PrependDropsCallerSystem ==
  \A c \in Calls :
    (/\ CreateIssued(c, "index")
     /\ Truthy(calls[c].systemPrompt)
     /\ calls[c].options.hasInitialPrompts
     /\ LeadingSystem(calls[c].options.initialPrompts))
    => /\ calls[c].merged.hasInitialPrompts
       /\ calls[c].merged.initialPrompts =
            <<Message("system", calls[c].systemPrompt)>> \o Tail(calls[c].options.initialPrompts)

\* the spec's scenario, with one more message: A and [system:B, hello, bye]
C7_Witness ==
  \E c \in Calls :
    /\ CreateIssued(c, "index")
    /\ calls[c].session = "created"
    /\ calls[c].systemPrompt = "A"
    /\ calls[c].options.initialPrompts =
         <<Message("system", "B"), Message("user", "hello"), Message("user", "bye")>>
    /\ calls[c].merged.initialPrompts =
         <<Message("system", "A"), Message("user", "hello"), Message("user", "bye")>>

\* the caller supplied no initial messages
NoInitialPrompts(o) == ~o.hasInitialPrompts \/ Len(o.initialPrompts) = 0

\* C8: safe.ts createSession (and the createSession that delegates to it): if
\* the caller supplied any initial messages the host receives exactly those,
\* without the Instance's system message; the synthesized system message is the
\* initialPrompts only when the caller supplied none.
C8_OverrideMerge ==
  \A c \in Calls :
    CreateIssued(c, "safe") =>
      LET o == calls[c].options
          m == calls[c].merged
          synthesized == <<Message("system", calls[c].systemPrompt)>>
      IN /\ ~NoInitialPrompts(o) => m = o
         /\ (NoInitialPrompts(o) /\ Truthy(calls[c].systemPrompt)) =>
              (m.hasInitialPrompts /\ m.initialPrompts = synthesized)
         /\ (NoInitialPrompts(o) /\ ~Truthy(calls[c].systemPrompt)) => m = o
         /\ (m.hasInitialPrompts /\ Truthy(calls[c].systemPrompt)
               /\ m.initialPrompts = synthesized) => NoInitialPrompts(o)

\* the README's override: Instance prompt A, initialPrompts [system:B, hello]
C8_Witness ==
  \E c \in Calls :
    /\ CreateIssued(c, "safe")
    /\ calls[c].session = "created"
    /\ calls[c].systemPrompt = "A"
    /\ calls[c].options.initialPrompts = <<Message("system", "B"), Message("user", "hello")>>
    /\ calls[c].merged.initialPrompts = <<Message("system", "B"), Message("user", "hello")>>

\* the generation call of a prompt call is in flight
Generating(c) == calls[c].op = "prompt" /\ calls[c].pc = "prompting"

\* C9: prompt with a timeout and a caller signal: while the generation call is
\* in flight, the signal the host holds is aborted exactly when the caller's
\* signal has been aborted or the timeout has elapsed.
C9_EitherSourceAborts ==
  \A c \in Calls :
    (Generating(c) /\ calls[c].timeout # 0 /\ calls[c].hasSignal)
    => (SignalAborted(calls[c]) <=> (calls[c].userAborted \/ calls[c].timer = "fired"))

\* prompt was called with a timeout and no caller signal, and session.prompt was called
TimeoutOnly(c) ==
  /\ calls[c].op = "prompt"
  /\ calls[c].promptCalls = 1
  /\ calls[c].timeout # 0
  /\ ~calls[c].hasSignal

C10_Safety ==
  \A c \in Calls :
    TimeoutOnly(c) =>
      /\ calls[c].hostSignal = "timeout"
      /\ calls[c].timer # "none"
      /\ SignalAborted(calls[c]) <=> calls[c].timer = "fired"
      /\ (calls[c].timer = "fired" /\ ~Done(c)) => ENABLED HostPromptAbort(c)
      /\ Done(c) => calls[c].timer \in {"fired", "cleared"}
      /\ (Done(c) /\ calls[c].reply = "abort") =>
           /\ calls[c].outcome.kind \in {"err", "thrown", "rejected"}
           /\ calls[c].outcome.error \in ({AbortError} \cup DestroyFaults)

\* C10: prompt with a timeout and no caller signal: the host is handed a new
\* signal, which is aborted exactly when the timer has fired; a host that
\* aborts on the signal makes the call report a failure, so the call returns
\* (timers fire, and the host settles an aborted call); once it has returned
\* the timer is no longer pending.
C10_TimeoutOnly ==
  /\ []C10_Safety
  /\ (Generating(1) /\ TimeoutOnly(1)) ~> Done(1)

\* the timeout elapsed, the host aborted, the call reported the AbortError
C10_Witness ==
  \E c \in Calls :
    /\ TimeoutOnly(c) /\ Done(c)
    /\ calls[c].timer = "fired"
    /\ calls[c].reply = "abort"
    /\ calls[c].outcome.kind = "err"
    /\ calls[c].outcome.error = AbortError

\* session.prompt has been called by a prompt call
Prompted(c) == calls[c].op = "prompt" /\ calls[c].promptCalls >= 1

\* C11: prompt with neither a timeout nor a caller signal: the host is given no
\* signal and no timer exists; with only a caller signal: the host is given
\* that signal (aborted exactly when the caller aborted it) and no timer exists.
C11_NoComposition ==
  \A c \in Calls :
    (Prompted(c) /\ calls[c].timeout = 0) =>
      /\ calls[c].timer = "none"
      /\ ~calls[c].timeoutAborted
      /\ calls[c].hostSignal = (IF calls[c].hasSignal THEN "user" ELSE "none")
      /\ SignalAborted(calls[c]) <=> (calls[c].hasSignal /\ calls[c].userAborted)

\* a generation call holding the caller's own signal, which the caller has aborted
C11_Witness ==
  \E c \in Calls :
    /\ Generating(c)
    /\ calls[c].timeout = 0
    /\ calls[c].hostSignal = "user"
    /\ calls[c].userAborted
    /\ calls[c].timer = "none"

Failure(o) == o.kind \in {"err", "thrown", "rejected"}

\* C12: a prompt call issues exactly one generation call once its session
\* exists, whatever the reply; when session creation fails it issues none and
\* sets no timer; a failed or cancelled generation is reported as a failure, once.
C12_NoRetry ==
  \A c \in Calls :
    calls[c].op = "prompt" =>
      /\ calls[c].creates <= 1
      /\ calls[c].promptCalls = (IF calls[c].session = "created" THEN 1 ELSE 0)
      /\ calls[c].session = "none" => calls[c].timer = "none"
      /\ (Done(c) /\ calls[c].session = "none") => Failure(calls[c].outcome)
      /\ (Done(c) /\ calls[c].reply \in {"fail", "abort"}) => Failure(calls[c].outcome)
      /\ (calls[c].reply \in {"fail", "abort"}) => Done(c)

\* a prompt call has returned the failure of its one generation call
C12_Witness ==
  \E c \in Calls :
    /\ Returned1(c, "prompt")
    /\ calls[c].reply = "fail"
    /\ calls[c].promptCalls = 1
    /\ calls[c].outcome.kind = "err"

\* C13: a withSession call whose session creation failed never called the
\* callback nor destroy, and delivers the creation failure.
C13_CreateFailureSkipsCallback ==
  \A c \in Calls :
    (calls[c].op = "withSession" /\ calls[c].session = "none") =>
      /\ calls[c].callbackCalls = 0
      /\ calls[c].destroyCalls = 0
      /\ Done(c) =>
           /\ calls[c].outcome.kind \in {"err", "thrown"}
           /\ calls[c].outcome.error \in {CreateSessionError(e) : e \in HostFaults}

\* a withSession call has thrown the creation failure
C13_Witness ==
  \E c \in Calls :
    /\ calls[c].op = "withSession" /\ Done(c)
    /\ calls[c].session = "none"
    /\ calls[c].outcome.kind = "thrown"
    /\ calls[c].outcome.error = CreateSessionError(Thrown(TRUE, "NotAllowedError"))

\* what the caller gets when the outcome handed on is the ResultAsync outcome r
Same(c, r) == calls[c].outcome = Deliver(calls[c].conv, r)

\* C14: a withSession call whose callback ran delivers the callback's outcome:
\* success v if it yielded v, failure e if it yielded failure e or (throwing
\* form) rejected with the Error e.
C14_CallbackOutcomePreserved ==
  \A c \in Calls :
    (Returned1(c, "withSession") /\ calls[c].cbKind \in {"ok", "err", "reject"}) =>
      /\ calls[c].cbKind = "ok" => Same(c, Ok("v"))
      /\ calls[c].cbKind = "err" => Same(c, Err(calls[c].cbFault))
      /\ (calls[c].cbKind = "reject" /\ calls[c].conv = "throwing" /\ calls[c].cbFault.isError)
           => calls[c].outcome = Threw(calls[c].cbFault)

\* the call delivered a success to its caller
Success(c) == Done(c) /\ calls[c].outcome.kind \in {"ok", "returned"}

\* C15: every TokenUsageInfo a checkTokenUsage call returns has
\* tokensAvailable = maxTokens - tokensSoFar and
\* willFit = (promptTokens <= tokensAvailable).
C15_TokenUsageInfoInvariant ==
  \A c \in Calls :
    (calls[c].op = "checkTokenUsage" /\ Success(c)) =>
      LET info == calls[c].info
      IN /\ info.tokensAvailable = info.maxTokens - info.tokensSoFar
         /\ info.willFit = (info.promptTokens <= info.tokensAvailable)

\* an info with no quota reported (or a zero one) and usage above it
C15_Witness ==
  \E c \in Calls :
    /\ calls[c].op = "checkTokenUsage" /\ Success(c)
    /\ calls[c].info.maxTokens = 0
    /\ calls[c].info.tokensSoFar = MaxTokens
    /\ calls[c].info.tokensAvailable = -MaxTokens
    /\ ~calls[c].info.willFit

\* C16: checkTokenUsage has no side effect: it never calls session.prompt, and
\* once it has returned no session of its own is left live (as many live
\* sessions after the call as before it).
C16_CheckTokenUsageSideEffectFree ==
  /\ \A c \in Calls : calls[c].op = "checkTokenUsage" => calls[c].promptCalls = 0
  /\ "checkTokenUsage" \notin leakedSessions

\* the first reading of the initialize call has arrived
FirstReading(c, a) ==
  calls[c].op = "initialize" /\ Len(calls[c].readings) >= 1 /\ calls[c].readings[1] = a

\* C17: an initialize call whose probe read 'unavailable' has ended in the
\* one failure "not available", after one probe, with no LanguageModel.create
\* call (no download attempt, no session).
C17_UnavailableFails ==
  \A c \in Calls :
    FirstReading(c, "unavailable") =>
      /\ Done(c)
      /\ Failure(calls[c].outcome)
      /\ calls[c].outcome.error = UnavailableError(calls[c].api)
      /\ calls[c].probes = 1
      /\ calls[c].creates = 0
      /\ calls[c].session = "none"

C17_Witness ==
  \E c \in Calls :
    /\ FirstReading(c, "unavailable")
    /\ calls[c].api = "index"
    /\ calls[c].outcome = Err(UnavailableErrorIndex)

\* C18: where LanguageModel is not defined, an initialize call has ended in the
\* failure "not available" without calling LanguageModel.availability() or
\* LanguageModel.create().
C18_CapabilityAbsentFails ==
  \A c \in Calls :
    (calls[c].op = "initialize" /\ ~env.hasLanguageModel) =>
      /\ Done(c)
      /\ Failure(calls[c].outcome)
      /\ calls[c].outcome.error = UnavailableError(calls[c].api)
      /\ calls[c].probes = 0
      /\ calls[c].readings = <<>>
      /\ calls[c].creates = 0

C18_Witness ==
  \E c \in Calls :
    /\ calls[c].op = "initialize" /\ ~env.hasLanguageModel
    /\ calls[c].api = "safe"
    /\ calls[c].outcome = Err(UnavailableErrorSafe)

\* C19: an initializeSafe / initialize call of index.ts whose first probe read
\* 'available' creates no session and, once it has returned, has succeeded,
\* whatever the host's availability became afterwards.
C19_AvailableSucceeds ==
  \A c \in Calls :
    (FirstReading(c, "available") /\ calls[c].api = "index") =>
      /\ calls[c].creates = 0
      /\ calls[c].session = "none"
      /\ Done(c) => Success(c)

\* the initializeSafe / initialize call of index.ts went through the inline
\* download: first reading 'downloadable', temporary session created and
\* destroyed, second reading 'available'
DownloadedInline(c) ==
  /\ calls[c].op = "initialize" /\ calls[c].api = "index"
  /\ calls[c].readings = <<"downloadable", "available">>

\* C20: an index.ts initialize call that read 'downloadable', completed the
\* download step and then read 'available' has succeeded with an Instance
\* whose systemPrompt is the argument the caller supplied.
C20_InlineDownloadKeepsSystemPrompt ==
  \A c \in Calls :
    DownloadedInline(c) =>
      /\ Success(c)
      /\ calls[c].creates = 1 /\ calls[c].session = "created" /\ calls[c].destroyCalls = 1
      /\ [systemPrompt |-> calls[c].systemPrompt, instanceId |-> calls[c].instanceId] \in instances
      /\ \A i \in instances :
            i.instanceId = calls[c].instanceId => i.systemPrompt = calls[c].systemPrompt

C20_Witness ==
  \E c \in Calls :
    /\ DownloadedInline(c)
    /\ calls[c].systemPrompt = "A"
    /\ \E i \in instances : i.instanceId = calls[c].instanceId /\ i.systemPrompt = "A"

\* the last reading LanguageModel.availability() gave the call
LastReading(c) == calls[c].readings[Len(calls[c].readings)]

\* C21: an initialize call has succeeded only if its last host call was a probe
\* that read 'available' (every probe it issued was read, and the download
\* step, if any, came before the last probe); after a download attempt any
\* other final reading ends the call in a failure.
C21_InstanceOnlyWhenAvailable ==
  \A c \in Calls :
    calls[c].op = "initialize" =>
      /\ Success(c) =>
            /\ calls[c].readings # <<>>
            /\ LastReading(c) = "available"
            /\ Len(calls[c].readings) = calls[c].probes
            /\ calls[c].creates = 1 => calls[c].probes = 2
      /\ (calls[c].creates = 1 /\ Len(calls[c].readings) = 2 /\ LastReading(c) # "available") =>
            Done(c) /\ Failure(calls[c].outcome)

\* the download step succeeded and the download is still running at the re-probe
C21_Witness ==
  \E c \in Calls :
    /\ calls[c].op = "initialize" /\ calls[c].creates = 1
    /\ calls[c].readings = <<"downloadable", "downloading">>
    /\ Done(c) /\ Failure(calls[c].outcome)

\* the download step of the call succeeded (temporary session created and
\* destroyed) and the re-probe did not read 'available'
ReprobeNotAvailable(c) ==
  /\ calls[c].op = "initialize" /\ calls[c].api = "index" /\ Done(c)
  /\ calls[c].session = "created"
  /\ Len(calls[c].readings) = 2 /\ LastReading(c) # "available"

\* C22: the failure of an initializeSafe call whose download step succeeded
\* but whose re-probe did not read 'available' differs from the failure a
\* failed download step gives (HostDownloadReject: err(DownloadError)).
C22_ReprobeFailureDistinct ==
  \A c \in Calls :
    ReprobeNotAvailable(c) =>
      /\ Failure(calls[c].outcome)
      /\ calls[c].outcome.error # DownloadError

\* C23: an initialize call whose first probe read 'downloading' attaches to
\* the running download with one LanguageModel.create call, does not return
\* before that call settles, and succeeds when the download step has completed
\* and the model then reads 'available'.
C23_DownloadingAttaches ==
  \A c \in Calls :
    (FirstReading(c, "downloading") /\ Done(c)) =>
      /\ calls[c].creates = 1
      /\ (calls[c].session = "created" /\ calls[c].readings = <<"downloading", "available">>)
           => Success(c)

\* C24: as the README documents initialize, a model that needs a download is
\* not downloaded by initialize itself: the call makes no LanguageModel.create
\* call and returns a result (type 'needs-download'), not a failure; with the
\* model available it returns the Instance.
C24_DeferredDownload ==
  \A c \in Calls :
    /\ FirstReading(c, "downloadable") =>
          /\ calls[c].creates = 0
          /\ Done(c) /\ ~Failure(calls[c].outcome)
    /\ (calls[c].op = "initialize" /\ calls[c].readings = <<"available">> /\ Done(c))
          => Success(c)

\* C25: a Safe.initialize call (safe.ts, either form) with LanguageModel absent
\* or with a reading other than 'available' has failed with the error that
\* carries the instructions, with no LanguageModel.create call and no session;
\* it has succeeded only on the reading 'available'.
C25_SafeInitializeRefuses ==
  \A c \in Calls :
    (calls[c].op = "initialize" /\ calls[c].api = "safe") =>
      /\ calls[c].creates = 0 /\ calls[c].session = "none"
      /\ (~env.hasLanguageModel \/ (calls[c].readings # <<>> /\ calls[c].readings[1] # "available")) =>
            /\ Done(c)
            /\ calls[c].outcome = Deliver(calls[c].conv, Err(UnavailableErrorSafe))
      /\ Success(c) => calls[c].readings = <<"available">>

C25_Witness ==
  \E c \in Calls :
    /\ calls[c].op = "initialize" /\ calls[c].api = "safe"
    /\ calls[c].readings = <<"downloadable">>
    /\ calls[c].outcome = Threw(UnavailableErrorSafe)

\* a createSessionSafe / Safe.createSession call whose LanguageModel.create
\* threw or rejected has returned
CreateFailed(c) ==
  /\ calls[c].op = "createSession" /\ calls[c].conv = "result" /\ Done(c)
  /\ calls[c].createFault # NoError

\* C26 as claimed: such a call settles to one err whose message embeds the
\* host's cause, whatever was thrown.
C26_CreateFailureEmbedsCause ==
  \A c \in Calls :
    CreateFailed(c) =>
      /\ calls[c].outcome.kind = "err"
      /\ calls[c].outcome.error.message = "Failed to create AI session"
      /\ calls[c].outcome.error.cause = calls[c].createFault.message

\* C26 as amended: such a call settles to one err (never a rejection) whose
\* message embeds the message of the thrown Error, and "Unknown error" when
\* what was thrown is not an Error.
C26_CreateFailureCaptured ==
  \A c \in Calls :
    CreateFailed(c) =>
      /\ calls[c].outcome.kind = "err"
      /\ calls[c].session = "none"
      /\ calls[c].outcome.error.isError
      /\ calls[c].outcome.error.message = "Failed to create AI session"
      /\ calls[c].outcome.error.cause =
           IF calls[c].createFault.isError THEN calls[c].createFault.message
           ELSE "Unknown error"

C26_Witness ==
  \E c \in Calls :
    /\ CreateFailed(c)
    /\ ~calls[c].createFault.isError
    /\ calls[c].outcome = Err(CreateSessionError(calls[c].createFault))
    /\ calls[c].outcome.error.cause = "Unknown error"

\* C27: a call of the throwing form returns v exactly when the
\* result-returning function it runs (same inputs, same host replies, same
\* host calls) yields ok(v), and throws e exactly when that yields err(e).
C27_DualConvention ==
  \A c \in Calls :
    (Done(c) /\ calls[c].conv = "throwing") =>
      /\ calls[c].outcome.kind = "returned" <=> calls[c].result.kind = "ok"
      /\ calls[c].outcome.kind = "thrown" <=> calls[c].result.kind = "err"
      /\ calls[c].outcome.value = calls[c].result.value
      /\ calls[c].outcome.error = calls[c].result.error

\* the Instance the call was given came out of an initialize call
FromInitialize(c) ==
  [systemPrompt |-> calls[c].systemPrompt, instanceId |-> calls[c].instanceId] \in instances

\* C28: a createSession / withSession / checkTokenUsage / prompt call that has
\* called LanguageModel.create (and so any call that has called
\* session.prompt) was given an Instance that an earlier initialize call
\* returned.
C28_InitializationGate ==
  \A c \in Calls :
    (calls[c].op \in {"createSession", "withSession", "checkTokenUsage", "prompt"}
       /\ (calls[c].creates >= 1 \/ calls[c].promptCalls >= 1))
      => FromInitialize(c)

\* C29: the Instances that successful initialize calls returned carry pairwise
\* distinct instanceIds: two Instances with one id are one Instance, two calls
\* that have both succeeded hold different ids, and the id a call returned
\* belongs to no other Instance.
C29_InstanceIdsUnique ==
  /\ \A i, j \in instances : i.instanceId = j.instanceId => i = j
  /\ \A c, d \in Calls :
       (c # d /\ calls[c].op = "initialize" /\ Success(c)
              /\ calls[d].op = "initialize" /\ Success(d))
         => calls[c].instanceId # calls[d].instanceId
  /\ \A c \in Calls :
       (calls[c].op = "initialize" /\ Success(c)) => FromInitialize(c)

\* three Instances exist, two of them returned by calls that ran interleaved
C29_Witness ==
  /\ Cardinality({i.instanceId : i \in instances}) >= MaxInits + 1
  /\ \A c \in Calls : calls[c].op = "initialize" /\ Success(c)

\* every caller has made its call and got its outcome
AllReturned == \A c \in Calls : calls[c].op # "none" /\ Done(c)

\* C30: calls that run interleaved on one shared Instance leave the Instance
\* as it was, each destroys at most the one session it created, and once all
\* of them have returned none of their sessions is still live and none of
\* their timers is still pending.
C30_SharedInstanceSafe ==
  /\ instances = {SharedInstance}
  /\ \A c \in Calls :
       /\ calls[c].op # "none" =>
            calls[c].systemPrompt = SharedInstance.systemPrompt
              /\ calls[c].instanceId = SharedInstance.instanceId
       /\ calls[c].creates <= 1
       /\ calls[c].destroyCalls <= 1
       /\ calls[c].destroyCalls = 1 => calls[c].session = "created"
  /\ AllReturned =>
       \A c \in Calls :
         /\ calls[c].session = "created" => calls[c].destroyCalls = 1
         /\ calls[c].timer # "pending"

\* the operations that run a callback on a session of their own
Scoped(c) == calls[c].op \in {"withSession", "checkTokenUsage", "prompt"}

\* the callback of the call has been called and has not completed
CallbackRunning(c) == calls[c].pc \in {"callback", "measuring", "prompting"}

\* C31: in a scoped call destroy() is not called before the callback has
\* completed, and when the call delivers its outcome after its callback
\* completed (success or failure), destroy() has been called.
C31_DestroyAfterCallbackBeforeReturn ==
  \A c \in Calls :
    Scoped(c) =>
      /\ (calls[c].pc = "create" \/ CallbackRunning(c)) => calls[c].destroyCalls = 0
      /\ (Done(c) /\ calls[c].callbackCalls = 1) => calls[c].destroyCalls = 1

\* C32: a withSession call whose callback yielded the success value v delivers
\* the success v, whatever session.destroy() did during the cleanup.
C32_CleanupKeepsSuccess ==
  \A c \in Calls :
    (calls[c].op = "withSession" /\ calls[c].cbKind = "ok" /\ Done(c)
       /\ calls[c].destroyCalls = 1)
      => Success(c) /\ calls[c].outcome.value = "v"

\* the operations whose session is the library's own: the temporary session of
\* initialize's download step, and the sessions of checkTokenUsage and prompt
Internal(c) == calls[c].op \in {"initialize", "checkTokenUsage", "prompt"}

\* C33: the library calls destroy() at most once on a session, calls nothing
\* on a session after destroy(), and a call that created a session for its own
\* use has destroyed it exactly once when it returns, on every exit path.
C33_InternalSessionsReleasedOnce ==
  \A c \in Calls :
    /\ calls[c].destroyCalls <= 1
    /\ calls[c].destroyCalls = 1 => (calls[c].session = "created" /\ ~CallbackRunning(c))
    /\ (Internal(c) /\ Done(c) /\ calls[c].session = "created") => calls[c].destroyCalls = 1

\* the download step of the initialize call failed: LanguageModel.create was
\* called and the call returned without a second probe
DownloadStepFailed(c) ==
  /\ calls[c].op = "initialize" /\ Done(c)
  /\ calls[c].creates = 1 /\ calls[c].probes = 1

\* C34: the temporary session of initializeSafe's download step is destroyed
\* in the step that creates it and is not what the call returns; when creating
\* or destroying it fails the call ends in the download failure and produces
\* no Instance.
C34_TemporarySessionReleased ==
  \A c \in Calls :
    calls[c].op = "initialize" =>
      /\ calls[c].session = "created" => calls[c].destroyCalls = 1
      /\ Success(c) => (calls[c].outcome.value = "instance" /\ FromInitialize(c))
      /\ DownloadStepFailed(c) =>
           /\ calls[c].outcome = Deliver(calls[c].conv, Err(DownloadError))
           /\ calls[c].instanceId = 0
           /\ \A i \in instances : i.instanceId # nextId

\* destroy() of the temporary session threw
C34_Witness ==
  \E c \in Calls :
    /\ DownloadStepFailed(c)
    /\ calls[c].session = "created" /\ calls[c].destroyCalls = 1
    /\ calls[c].outcome = Err(DownloadError)

\* C35: an initialize call calls LanguageModel.create at most once and
\* LanguageModel.availability() at most twice (safe.ts: never and once), the
\* second probe only after the first was read, and a call that has failed has
\* its one failure and no host call pending.
C35_InitializeNoRetry ==
  \A c \in Calls :
    calls[c].op = "initialize" =>
      /\ calls[c].creates <= 1 /\ calls[c].probes <= 2
      /\ calls[c].api = "safe" => (calls[c].creates = 0 /\ calls[c].probes <= 1)
      /\ Len(calls[c].readings) <= calls[c].probes
      /\ calls[c].probes <= Len(calls[c].readings) + 1
      /\ Failure(calls[c].outcome) => (Done(c) /\ calls[c].instanceId = 0)

\* a failure after every host call the call may make: one create, two probes
C35_Witness ==
  \E c \in Calls :
    /\ calls[c].op = "initialize" /\ Done(c) /\ Failure(calls[c].outcome)
    /\ calls[c].creates = 1 /\ calls[c].probes = 2 /\ Len(calls[c].readings) = 2

\* C36: the options LanguageModel.create receives from a createSession call
\* carry every field other than initialPrompts as the caller gave it; on an
\* Instance without a system prompt they carry the caller's initialPrompts
\* too; and the caller's options object is afterwards what it was.
C36_OptionsVerbatim ==
  \A c \in Calls :
    (calls[c].op = "createSession" /\ calls[c].creates = 1) =>
      /\ calls[c].merged.other = calls[c].options.other
      /\ ~Truthy(calls[c].systemPrompt) => calls[c].merged = calls[c].options
      /\ calls[c].callerOptions = calls[c].options

\* other fields set, Instance with a system prompt, caller's messages given
C36_Witness ==
  \E c \in Calls :
    /\ calls[c].op = "createSession" /\ calls[c].session = "created"
    /\ calls[c].api = "index" /\ calls[c].systemPrompt = "A"
    /\ calls[c].options.other # NoOther
    /\ calls[c].merged.other = calls[c].options.other
    /\ calls[c].merged.initialPrompts # calls[c].options.initialPrompts
    /\ Len(calls[c].options.initialPrompts) = 2

\* C37: the options session.prompt receives carry every promptOptions field
\* other than signal as the caller gave it, in each of the four timeout /
\* signal combinations, with a signal only where the code puts one, and the
\* caller's promptOptions object is afterwards what it was.
C37_PromptOptionsVerbatim ==
  \A c \in Calls :
    Prompted(c) =>
      /\ calls[c].hostOther = calls[c].promptOther
      /\ (calls[c].timeout = 0 /\ ~calls[c].hasSignal) => calls[c].hostSignal = "none"
      /\ (calls[c].timeout = 0 /\ calls[c].hasSignal) => calls[c].hostSignal = "user"
      /\ (calls[c].timeout # 0 /\ ~calls[c].hasSignal) => calls[c].hostSignal = "timeout"
      /\ (calls[c].timeout # 0 /\ calls[c].hasSignal) => calls[c].hostSignal \in {"any", "user"}
      /\ calls[c].callerPromptOptions =
           [hasSignal |-> calls[c].hasSignal, other |-> calls[c].promptOther]

\* a responseConstraint given together with a timeout and a signal
C37_Witness ==
  \E c \in Calls :
    /\ Prompted(c) /\ Done(c)
    /\ calls[c].promptOther # NoOther /\ calls[c].hostOther = calls[c].promptOther
    /\ calls[c].timeout # 0 /\ calls[c].hasSignal /\ calls[c].hostSignal = "any"

\* C38: the aborted state of the signal the caller passed changes only when
\* the caller aborts it (or takes the outcome and starts over); no step of the
\* library, the timer's callback included, changes it.
C38_CallerSignalUntouched ==
  [][\A c \in Calls :
       calls'[c].userAborted # calls[c].userAborted => (UserAbort(c) \/ Collect(c))]_vars

\* the timeout elapsed on a call that was given a signal, and the caller's
\* signal is not aborted
C38_Witness ==
  \E c \in Calls :
    /\ calls[c].op = "prompt" /\ calls[c].hasSignal /\ calls[c].timeout # 0
    /\ calls[c].timer = "fired" /\ calls[c].timeoutAborted
    /\ ~calls[c].userAborted
    /\ Done(c)

\* call c has started and has not yet delivered its outcome
Pending(c) == calls[c].pc \notin {"idle", "done"}

\* an outcome, once delivered, stays as it is until the caller takes it
OneOutcome ==
  [][\A c \in Calls :
       calls[c].outcome # NoOutcome => (calls'[c].outcome = calls[c].outcome \/ Collect(c))]_vars

\* C39: every call that has started delivers an outcome, and only one, when
\* the host settles the calls it is given (a generation under a timeout only
\* once its signal is aborted) and due timers fire.
C39_Termination ==
  /\ OneOutcome
  /\ [](Done(1) <=> calls[1].outcome # NoOutcome)
  /\ Pending(1) ~> Done(1)

\* the same, leaving aside a prompt with a timeout and a caller signal where
\* AbortSignal.any is missing
C39_TerminationWithAny ==
  /\ OneOutcome
  /\ [](Done(1) <=> calls[1].outcome # NoOutcome)
  /\ (Pending(1) /\ (env.hasSignalAny \/ calls[1].timeout = 0 \/ ~calls[1].hasSignal)) ~> Done(1)

====
